---- MODULE Spec2Model ----
(***************************************************************************)
(* A model of fics-agent.py: the telnet session client Fics (who,          *)
(* disconnect), the record type Player and the polling loop FicsAgent.loop *)
(* with its sqlite3 transaction on fics.db.                                *)
(*                                                                         *)
(* Strings are sequences of one-character strings.  The telnet input is a  *)
(* sequence of whitespace-separated items; the two literal markers the     *)
(* code waits for are items of their own.                                  *)
(***************************************************************************)
EXTENDS Naturals, Sequences, FiniteSets, Bags, TLC

(* ------------------------------ bounds -------------------------------- *)

\* most tokens of one server reply (besides the markers)
MaxTokens == 2
\* most committed poll cycles of one run
MaxCycles == 2
\* longest token handed to the parser alone
MaxTokLen == 4

(* ------------------------------ strings ------------------------------- *)

Range(s) == {s[i] : i \in DOMAIN s}

Digits == {"0", "1", "2", "3", "4", "5", "6", "7", "8", "9"}

IsDigit(c) == c \in Digits

DigitVal(c) ==
    CASE c = "0" -> 0 [] c = "1" -> 1 [] c = "2" -> 2 [] c = "3" -> 3
      [] c = "4" -> 4 [] c = "5" -> 5 [] c = "6" -> 6 [] c = "7" -> 7
      [] c = "8" -> 8 [] c = "9" -> 9

\* The INT column affinity of observations.rating: a text of digits is
\* stored as the integer it denotes.
RECURSIVE NumVal(_)
NumVal(ds) ==
    IF ds = <<>> THEN 0
    ELSE 10 * NumVal(SubSeq(ds, 1, Len(ds) - 1)) + DigitVal(ds[Len(ds)])

\* The characters tokens are built from when the parser is checked alone.
Alphabet == {"0", "1", "^", "~", ":", "#", ".", "&", "x", "a"}

AllTokens == UNION {[1..n -> Alphabet] : n \in 1..MaxTokLen}

(* ------------------------------ Player -------------------------------- *)

STATUSES ==
    ("^" :> "INGAME") @@ ("~" :> "SIMUL_MATCH") @@ (":" :> "NOT_OPEN") @@
    ("#" :> "EXAMINING") @@ ("." :> "INACTIVE") @@ ("&" :> "INTOURNAMENT")

\* Player.__init__ raises KeyError when the status is no key of STATUSES.
PlayerRaises(groups) == groups[2] \notin DOMAIN STATUSES

Player(groups) ==
    [rating |-> groups[1], status |-> STATUSES[groups[2]], name |-> groups[3]]

(* ------------------------------- Fics --------------------------------- *)

\* WHO_REGEX.fullmatch: the places where group 1 can end.
WhoSplits(tok) ==
    {i \in 1..Len(tok) :
        /\ \A j \in 1..i : IsDigit(tok[j])
        /\ i + 2 <= Len(tok)
        /\ ~IsDigit(tok[i + 1])}

WhoMatches(tok) == WhoSplits(tok) # {}

WhoGroups(tok) ==
    LET i == CHOOSE k \in WhoSplits(tok) : TRUE
    IN  <<SubSeq(tok, 1, i), tok[i + 1], SubSeq(tok, i + 2, Len(tok))>>

SeqToBag(s) ==
    [x \in Range(s) |-> Cardinality({i \in DOMAIN s : s[i] = x})]

\* filter(None, map(fullmatch, playerStrings))
Matched(strings) == SelectSeq(strings, WhoMatches)

\* frozenset(map(Player, ...)) raises when one Player(...) does.
WhoRaises(strings) ==
    \E i \in DOMAIN Matched(strings) : PlayerRaises(WhoGroups(Matched(strings)[i]))

\* Player defines neither __eq__ nor __hash__: the frozenset holds one
\* object per matching token, a bag of (rating, status, name).
WhoPlayers(strings) ==
    LET m == Matched(strings)
    IN  SeqToBag([i \in DOMAIN m |-> Player(WhoGroups(m[i]))])

Displayed == <<"players displayed">>
Prompt == <<"fics%">>
LoginPrompt == <<"login: ">>
PasswordPrompt == <<"password: ">>

\* telnetlib read_until without a timeout: the input up to the marker;
\* when the connection closed without it, whatever is left, and EOFError
\* when nothing is left; otherwise it keeps waiting.
ReadUntil(q, closed, marker) ==
    IF \E i \in DOMAIN q : q[i] = marker
    THEN LET i == CHOOSE k \in DOMAIN q :
                     q[k] = marker /\ \A j \in 1..(k - 1) : q[j] # marker
         IN  [kind |-> "data", buf |-> SubSeq(q, 1, i),
              rest |-> SubSeq(q, i + 1, Len(q))]
    ELSE IF ~closed THEN [kind |-> "wait", buf |-> <<>>, rest |-> q]
    ELSE IF q = <<>> THEN [kind |-> "EOFError", buf |-> <<>>, rest |-> q]
    ELSE [kind |-> "data", buf |-> q, rest |-> <<>>]

\* read_until returned because it found the marker
FoundMarker(r, marker) ==
    r.kind = "data" /\ r.buf # <<>> /\ r.buf[Len(r.buf)] = marker

(* ------------------------- the server's replies ------------------------ *)

NameA == <<"a">>
NameB == <<"b">>
Names == {NameA, NameB}

PollTokens ==
    { <<"1", "^", "a">>,      \* a player in a game
      <<"0", "2", ":", "b">>, \* a player not open, rating with a leading zero
      <<"1", "x", "a">>,      \* a status character the table lacks
      <<"a", "b">> }          \* no rating: server chrome

Replies == UNION {[1..n -> PollTokens] : n \in 0..MaxTokens}

Chrome == <<"a", "b">>

\* What the server sends for one who command when nothing is cut.
FullAnswer(reply, trailing) == reply \o <<Displayed>> \o trailing \o <<Prompt>>

(* ------------------------------- state -------------------------------- *)

VARIABLES
    pc,             \* where the process is
    exc,            \* the exception that ended the process, or "none"
    excAt,          \* where it was raised
    interrupt,      \* where KeyboardInterrupt arrived, or "none"
    inq,            \* telnet input received and not yet read
    eof,            \* the server closed the connection
    sent,           \* the command lines given to tn.write
    playerStrings,  \* who: the split text of the reply
    playersFics,    \* loop: the result of who(), a bag of Players
    playersDB,      \* loop: the names SELECTed
    newPlayers,     \* loop: playersFicsSet - playersDB
    todoObs,        \* Players the second executemany has not reached
    txPlayers,      \* rows of players written and not committed
    txObs,          \* rows of observations written and not committed
    players,        \* committed table players: the id is the position
    observations,   \* committed table observations, a bag of rows
    cycles,         \* committed cycles so far
    prevReply,      \* the split reply of the previous committed cycle
    password,       \* connect: a password was supplied (it is not empty)
    seen            \* the markers the reads of the last Fics call found

vars == <<pc, exc, excAt, interrupt, inq, eof, sent, playerStrings, playersFics,
          playersDB, newPlayers, todoObs, txPlayers, txObs, players,
          observations, cycles, prevReply, password, seen>>

session == <<inq, eof, sent>>
locals == <<playerStrings, playersFics, playersDB, newPlayers>>
store == <<players, observations>>
tx == <<todoObs, txPlayers, txObs>>

ConnectPcs == {"connect", "login", "password", "ready", "setup"}
PollPcs == {"who", "read1", "read2", "parse"}
TxPcs == {"select", "insPlayers", "insObs", "commit"}
LoopPcs == PollPcs \cup TxPcs \cup {"sleep"}

InitialStores == {<<>>, <<NameA>>, <<NameB, NameA>>}

Init ==
    /\ pc = "who"
    /\ exc = "none"
    /\ excAt = "none"
    /\ interrupt = "none"
    /\ inq = <<>>
    /\ eof = FALSE
    /\ sent = <<>>
    /\ playerStrings = <<>>
    /\ playersFics = EmptyBag
    /\ playersDB = {}
    /\ newPlayers = {}
    /\ todoObs = EmptyBag
    /\ txPlayers = <<>>
    /\ txObs = EmptyBag
    /\ players \in InitialStores
    /\ observations = EmptyBag
    /\ cycles = 0
    /\ prevReply = [ok |-> FALSE, strings |-> <<>>]
    /\ password = FALSE
    /\ seen = <<LoginPrompt, Prompt>>

(* --------------------------- the store ------------------------------- *)

PlayerNames(fics) == {p.name : p \in BagToSet(fics)}

\* INSERT INTO observations ... SELECT id, :rating, :status FROM players
\* WHERE name = :name, for one Player, in the transaction's view of players.
ObsRowsDroppingWhere(view, p) ==
    {[playerid |-> i, rating |-> NumVal(p.rating), status |-> p.status] :
        i \in DOMAIN view}

ObsRowsFor(view, p) ==
    {[playerid |-> i, rating |-> NumVal(p.rating), status |-> p.status] :
        i \in {j \in DOMAIN view : view[j] = p.name}}

\* Leaving "with con:" by an exception rolls the transaction back.
RollbackKeepingRows(committed, pending) == committed \o pending

RollbackPlayers(committed, pending) == committed

RollbackObservationsKeepingRows(committed, pending) == committed (+) pending

RollbackObservations(committed, pending) == committed

\* An exception raised in the loop body: "with con:" rolls back when it is
\* passed through.
Unwind ==
    /\ players' = RollbackPlayers(players, txPlayers)
    /\ observations' = RollbackObservations(observations, txObs)
    /\ txPlayers' = <<>>
    /\ txObs' = EmptyBag
    /\ todoObs' = EmptyBag

\* An exception other than KeyboardInterrupt and SystemExit: the except
\* clause of loop does not take it and the process ends with it.
Uncaught(e) ==
    /\ pc' = "crashed"
    /\ exc' = e
    /\ excAt' = pc
    /\ Unwind

PollFailedLoopGoesOn(e) ==
    /\ pc' = "select"
    /\ exc' = e
    /\ excAt' = pc
    /\ UNCHANGED <<store, tx>>

\* who() raised: nothing in loop handles it.
PollFailed(e) == Uncaught(e)

(* ------------------------------ Fics.who ------------------------------ *)

\* tn.write(b"who\n"); the server answers with all of its answer or, when
\* the stream is cut, with a part of it.
WhoWrite ==
    /\ pc = "who"
    /\ cycles < MaxCycles
    /\ sent' = Append(sent, "who")
    /\ \/ /\ ~eof
          /\ \E reply \in Replies, trailing \in {<<>>, <<Chrome>>} :
               \E k \in 0..Len(FullAnswer(reply, trailing)) :
                  inq' = inq \o SubSeq(FullAnswer(reply, trailing), 1, k)
          /\ pc' = "read1"
          /\ UNCHANGED <<exc, excAt, store, tx>>
       \/ /\ eof
          /\ inq' = inq
          /\ pc' = "read1"
          /\ UNCHANGED <<exc, excAt, store, tx>>
       \/ /\ eof
          /\ inq' = inq
          /\ PollFailed("OSError")
    /\ seen' = <<>>
    /\ UNCHANGED <<interrupt, eof, locals, cycles, prevReply, password>>

\* read_until(b"players displayed").decode('ascii').split()
WhoReadReply ==
    /\ pc = "read1"
    /\ LET r == ReadUntil(inq, eof, Displayed)
       IN  /\ r.kind # "wait"
           /\ IF r.kind = "EOFError"
              THEN /\ PollFailed("EOFError")
                   /\ UNCHANGED <<inq, playerStrings, seen>>
              ELSE /\ playerStrings' = r.buf
                   /\ inq' = r.rest
                   /\ seen' = IF FoundMarker(r, Displayed)
                              THEN Append(seen, Displayed) ELSE seen
                   /\ pc' = "read2"
                   /\ UNCHANGED <<exc, excAt, store, tx>>
    /\ UNCHANGED <<interrupt, eof, sent, playersFics, playersDB, newPlayers,
                   cycles, prevReply, password>>

\* read_until(b"fics%")
WhoReadPrompt ==
    /\ pc = "read2"
    /\ LET r == ReadUntil(inq, eof, Prompt)
       IN  /\ r.kind # "wait"
           /\ IF r.kind = "EOFError"
              THEN /\ PollFailed("EOFError")
                   /\ UNCHANGED <<inq, seen>>
              ELSE /\ inq' = r.rest
                   /\ seen' = IF FoundMarker(r, Prompt)
                              THEN Append(seen, Prompt) ELSE seen
                   /\ pc' = "parse"
                   /\ UNCHANGED <<exc, excAt, store, tx>>
    /\ UNCHANGED <<interrupt, eof, sent, locals, cycles, prevReply, password>>

\* players = frozenset(map(Player, ...)); return players
WhoReturn ==
    /\ pc = "parse"
    /\ IF WhoRaises(playerStrings)
       THEN /\ PollFailed("KeyError")
            /\ UNCHANGED playersFics
       ELSE /\ playersFics' = WhoPlayers(playerStrings)
            /\ pc' = "select"
            /\ UNCHANGED <<exc, excAt, store, tx>>
    /\ UNCHANGED <<interrupt, session, playerStrings, playersDB, newPlayers,
                   cycles, prevReply, password, seen>>

(* --------------------------- FicsAgent.loop --------------------------- *)

\* con = sqlite3.connect(...); SELECT name FROM players; the set difference
Select ==
    /\ pc = "select"
    /\ playersDB' = Range(players)
    /\ newPlayers' = PlayerNames(playersFics) \ Range(players)
    /\ pc' = "insPlayers"
    /\ UNCHANGED <<exc, excAt, interrupt, session, playerStrings, playersFics,
                   store, tx, cycles, prevReply, password, seen>>

\* The same insert into a table whose name column is not UNIQUE.
InsertPlayerNotUnique ==
    /\ pc = "insPlayers"
    /\ \E n \in newPlayers \ Range(txPlayers) :
          /\ txPlayers' = Append(txPlayers, n)
          /\ UNCHANGED <<pc, exc, excAt, store, todoObs, txObs>>
    /\ UNCHANGED <<interrupt, session, locals, cycles, prevReply, password, seen>>

\* One row of executemany("INSERT INTO players (name) VALUES (?)"); name is
\* UNIQUE, so a name some other writer committed meanwhile is refused.
InsertPlayer ==
    /\ pc = "insPlayers"
    /\ \E n \in newPlayers \ Range(txPlayers) :
          IF n \in Range(players)
          THEN Uncaught("IntegrityError")
          ELSE /\ txPlayers' = Append(txPlayers, n)
               /\ UNCHANGED <<pc, exc, excAt, store, todoObs, txObs>>
    /\ UNCHANGED <<interrupt, session, locals, cycles, prevReply, password, seen>>

PlayersInserted ==
    /\ pc = "insPlayers"
    /\ newPlayers \ Range(txPlayers) = {}
    /\ pc' = "insObs"
    /\ todoObs' = playersFics
    /\ UNCHANGED <<exc, excAt, interrupt, session, locals, txPlayers, txObs,
                   store, cycles, prevReply, password, seen>>

\* One Player of executemany("INSERT INTO observations ... SELECT ...")
InsertObservation ==
    /\ pc = "insObs"
    /\ \E p \in BagToSet(todoObs) :
          /\ txObs' = txObs (+) SetToBag(ObsRowsFor(players \o txPlayers, p))
          /\ todoObs' = todoObs (-) SetToBag({p})
    /\ UNCHANGED <<pc, exc, excAt, interrupt, session, locals, txPlayers, store,
                   cycles, prevReply, password, seen>>

ObservationsInserted ==
    /\ pc = "insObs"
    /\ todoObs = EmptyBag
    /\ pc' = "commit"
    /\ UNCHANGED <<exc, excAt, interrupt, session, locals, tx, store, cycles,
                   prevReply, password, seen>>

\* A commit that replaces the observations by the cycle's ("update status").
CommitOverwriting ==
    /\ pc = "commit"
    /\ players' = players \o txPlayers
    /\ observations' = txObs
    /\ txPlayers' = <<>>
    /\ txObs' = EmptyBag
    /\ todoObs' = EmptyBag
    /\ cycles' = cycles + 1
    /\ prevReply' = [ok |-> TRUE, strings |-> playerStrings]
    /\ pc' = "sleep"
    /\ UNCHANGED <<exc, excAt, interrupt, session, locals, password, seen>>

\* con.commit() and the end of "with con:"
Commit ==
    /\ pc = "commit"
    /\ players' = players \o txPlayers
    /\ observations' = observations (+) txObs
    /\ txPlayers' = <<>>
    /\ txObs' = EmptyBag
    /\ todoObs' = EmptyBag
    /\ cycles' = cycles + 1
    /\ prevReply' = [ok |-> TRUE, strings |-> playerStrings]
    /\ pc' = "sleep"
    /\ UNCHANGED <<exc, excAt, interrupt, session, locals, password, seen>>

\* time.sleep(10) returns
Sleep ==
    /\ pc = "sleep"
    /\ pc' = "who"
    /\ UNCHANGED <<exc, excAt, interrupt, session, locals, tx, store, cycles,
                   prevReply, password, seen>>

\* sqlite3 raises in connect, execute, executemany or commit (the file is
\* locked, the disk is full, ...).
StoreFails ==
    /\ pc \in TxPcs
    /\ Uncaught("OperationalError")
    /\ UNCHANGED <<interrupt, session, locals, cycles, prevReply, password, seen>>

\* FicsAgent.close: self.cont = False; self.fics.disconnect()
closeTwice(s) == Append(Append(s, "exit"), "exit")

close(s) == Append(s, "exit")

\* KeyboardInterrupt arrives somewhere in the loop: except ...: self.close(),
\* loop returns and the process ends; the write of close can fail on a
\* connection the server closed.  The frames of who and loop are gone.
Interrupt ==
    /\ pc \in LoopPcs
    /\ interrupt' = pc
    /\ Unwind
    /\ sent' = close(sent)
    /\ \/ /\ pc' = "closed"
          /\ UNCHANGED <<exc, excAt>>
       \/ /\ eof
          /\ pc' = "crashed"
          /\ exc' = "OSError"
          /\ excAt' = "close"
    /\ inq' = <<>>
    /\ playerStrings' = <<>>
    /\ playersFics' = EmptyBag
    /\ playersDB' = {}
    /\ newPlayers' = {}
    /\ seen' = <<>>
    /\ UNCHANGED <<eof, cycles, prevReply, password>>

(* --------------------------- the environment -------------------------- *)

\* The server closes the connection.
ServerCloses ==
    /\ pc \in LoopPcs \cup (ConnectPcs \ {"connect"})
    /\ ~eof
    /\ eof' = TRUE
    /\ UNCHANGED <<pc, exc, excAt, interrupt, inq, sent, locals, tx, store,
                   cycles, prevReply, password, seen>>

\* Another writer on fics.db commits a players row; it cannot while this
\* process holds the write lock of a transaction that has written.
OtherWriterInserts ==
    /\ pc \in LoopPcs
    /\ txPlayers = <<>>
    /\ txObs = EmptyBag
    /\ \E n \in Names \ Range(players) : players' = Append(players, n)
    /\ UNCHANGED <<pc, exc, excAt, interrupt, session, locals, tx,
                   observations, cycles, prevReply, password, seen>>

Next ==
    \/ WhoWrite
    \/ WhoReadReply
    \/ WhoReadPrompt
    \/ WhoReturn
    \/ Select
    \/ InsertPlayer
    \/ PlayersInserted
    \/ InsertObservation
    \/ ObservationsInserted
    \/ Commit
    \/ Sleep
    \/ StoreFails
    \/ Interrupt
    \/ ServerCloses
    \/ OtherWriterInserts

Spec == Init /\ [][Next]_vars

(* ------------- the process from its start: Fics.connect -------------- *)

\* What the server sends when the connection opens, after the username
\* line (a password prompt, or the session of a guest) and after the
\* password line, when nothing is cut.
Greeting == <<Chrome, LoginPrompt>>
AfterUser == {<<PasswordPrompt>>, <<Chrome, Prompt>>}
AfterPassword == <<Chrome, Prompt>>

Prefixes(answer) == {SubSeq(answer, 1, k) : k \in 0..Len(answer)}

StartInit ==
    /\ pc = "connect"
    /\ exc = "none"
    /\ excAt = "none"
    /\ interrupt = "none"
    /\ inq = <<>>
    /\ eof = FALSE
    /\ sent = <<>>
    /\ playerStrings = <<>>
    /\ playersFics = EmptyBag
    /\ playersDB = {}
    /\ newPlayers = {}
    /\ todoObs = EmptyBag
    /\ txPlayers = <<>>
    /\ txObs = EmptyBag
    /\ players \in InitialStores
    /\ observations = EmptyBag
    /\ cycles = 0
    /\ prevReply = [ok |-> FALSE, strings |-> <<>>]
    /\ password \in BOOLEAN
    /\ seen = <<>>

\* self.tn = telnetlib.Telnet(HOST): the connection opens or an OSError
\* leaves __init__ and the process.
ConnectOpen ==
    /\ pc = "connect"
    /\ \/ /\ inq' \in Prefixes(Greeting)
          /\ pc' = "login"
          /\ UNCHANGED <<exc, excAt, store, tx>>
       \/ /\ Uncaught("OSError")
          /\ UNCHANGED inq
    /\ UNCHANGED <<interrupt, eof, sent, locals, cycles, prevReply, password,
                   seen>>

\* A write of connect that follows a read: it can fail on a connection the
\* server closed; otherwise the server answers.
ConnectWrite(line, rest, answers, next) ==
    /\ sent' = Append(sent, line)
    /\ \/ /\ ~eof
          /\ \E a \in answers : inq' \in {rest \o q : q \in Prefixes(a)}
          /\ pc' = next
          /\ UNCHANGED <<exc, excAt, store, tx>>
       \/ /\ eof
          /\ inq' = rest
          /\ pc' = next
          /\ UNCHANGED <<exc, excAt, store, tx>>
       \/ /\ eof
          /\ inq' = rest
          /\ Uncaught("OSError")

\* read_until(b"login: "); tn.write(user); if password: ...
ConnectLogin ==
    /\ pc = "login"
    /\ LET r == ReadUntil(inq, eof, LoginPrompt)
       IN  /\ r.kind # "wait"
           /\ IF r.kind = "EOFError"
              THEN /\ Uncaught("EOFError")
                   /\ UNCHANGED <<inq, sent, seen>>
              ELSE /\ seen' = IF FoundMarker(r, LoginPrompt)
                              THEN Append(seen, LoginPrompt) ELSE seen
                   /\ ConnectWrite("user", r.rest, AfterUser,
                                   IF password THEN "password" ELSE "ready")
    /\ UNCHANGED <<interrupt, eof, locals, cycles, prevReply, password>>

\* read_until(b"password: "); tn.write(password)
ConnectPassword ==
    /\ pc = "password"
    /\ LET r == ReadUntil(inq, eof, PasswordPrompt)
       IN  /\ r.kind # "wait"
           /\ IF r.kind = "EOFError"
              THEN /\ Uncaught("EOFError")
                   /\ UNCHANGED <<inq, sent, seen>>
              ELSE /\ seen' = IF FoundMarker(r, PasswordPrompt)
                              THEN Append(seen, PasswordPrompt) ELSE seen
                   /\ ConnectWrite("password", r.rest, {AfterPassword}, "ready")
    /\ UNCHANGED <<interrupt, eof, locals, cycles, prevReply, password>>

\* read_until(b"fics%"); connect and Fics.__init__ return
ConnectReady ==
    /\ pc = "ready"
    /\ LET r == ReadUntil(inq, eof, Prompt)
       IN  /\ r.kind # "wait"
           /\ IF r.kind = "EOFError"
              THEN /\ Uncaught("EOFError")
                   /\ UNCHANGED <<inq, seen>>
              ELSE /\ inq' = r.rest
                   /\ seen' = IF FoundMarker(r, Prompt)
                              THEN Append(seen, Prompt) ELSE seen
                   /\ pc' = "setup"
                   /\ UNCHANGED <<exc, excAt, store, tx>>
    /\ UNCHANGED <<interrupt, eof, sent, locals, cycles, prevReply, password>>

\* setupDB: CREATE TABLE IF NOT EXISTS keeps the rows of an earlier run;
\* then agent.loop() is entered.
SetupDB ==
    /\ pc = "setup"
    /\ \/ /\ pc' = "who"
          /\ UNCHANGED <<exc, excAt, store, tx>>
       \/ Uncaught("OperationalError")
    /\ UNCHANGED <<interrupt, session, locals, cycles, prevReply, password,
                   seen>>

\* KeyboardInterrupt arrives in FicsAgent(...): no try encloses it, the
\* process ends with it.
InterruptConnecting ==
    /\ pc \in ConnectPcs
    /\ interrupt' = pc
    /\ pc' = "crashed"
    /\ exc' = "KeyboardInterrupt"
    /\ excAt' = pc
    /\ UNCHANGED <<session, locals, tx, store, cycles, prevReply, password,
                   seen>>

StartNext ==
    \/ ConnectOpen
    \/ ConnectLogin
    \/ ConnectPassword
    \/ ConnectReady
    \/ SetupDB
    \/ InterruptConnecting
    \/ Next

SpecStartup == StartInit /\ [][StartNext]_vars

(* ------------------- the parser of who() checked alone ----------------- *)

\* who() has read a reply of one token and is about to build its result.
ParserInit ==
    /\ pc = "parse"
    /\ exc = "none"
    /\ excAt = "none"
    /\ interrupt = "none"
    /\ inq = <<>>
    /\ eof = FALSE
    /\ sent = <<"who">>
    /\ playerStrings \in {<<t>> : t \in AllTokens}
    /\ playersFics = EmptyBag
    /\ playersDB = {}
    /\ newPlayers = {}
    /\ todoObs = EmptyBag
    /\ txPlayers = <<>>
    /\ txObs = EmptyBag
    /\ players = <<>>
    /\ observations = EmptyBag
    /\ cycles = 0
    /\ prevReply = [ok |-> FALSE, strings |-> <<>>]
    /\ password = FALSE
    /\ seen = <<LoginPrompt, Prompt>>

ParserNext == WhoReturn

SpecParser == ParserInit /\ [][ParserNext]_vars

(* ------------------------ notions the claims use ----------------------- *)

ListedStatusChars == {"^", "~", ":", "#", ".", "&"}

StatusTable(c) ==
    CASE c = "^" -> "INGAME"
      [] c = "~" -> "SIMUL_MATCH"
      [] c = ":" -> "NOT_OPEN"
      [] c = "#" -> "EXAMINING"
      [] c = "." -> "INACTIVE"
      [] c = "&" -> "INTOURNAMENT"

\* the length of the maximal digit prefix
LeadDigits(tok) ==
    Cardinality({k \in 1..Len(tok) : \A j \in 1..k : IsDigit(tok[j])})

\* digits, one non-digit character, at least one more character
HasRecordShape(tok) ==
    /\ LeadDigits(tok) >= 1
    /\ LeadDigits(tok) + 2 <= Len(tok)

StatusCharOf(tok) == tok[LeadDigits(tok) + 1]

WellFormed(tok) == HasRecordShape(tok) /\ StatusCharOf(tok) \in ListedStatusChars

Unlisted(tok) == HasRecordShape(tok) /\ StatusCharOf(tok) \notin ListedStatusChars

RecordOf(tok) ==
    [rating |-> SubSeq(tok, 1, LeadDigits(tok)),
     status |-> StatusTable(StatusCharOf(tok)),
     name |-> SubSeq(tok, LeadDigits(tok) + 2, Len(tok))]

RecordsOf(strings) ==
    LET good == SelectSeq(strings, WellFormed)
    IN  SeqToBag([i \in DOMAIN good |-> RecordOf(good[i])])

\* the step that commits a cycle
CommitStep == pc = "commit" /\ pc' = "sleep"

AddedPlayers == SubSeq(players', Len(players) + 1, Len(players'))

AddedObs == observations' (-) observations

\* the rows of a bag of observations that belong to entity id
RowsOfEntity(obs, id) ==
    BagCardinality([r \in {x \in BagToSet(obs) : x.playerid = id} |-> obs[r]])

RECURSIVE CopiesOver(_, _)
CopiesOver(S, B) ==
    IF S = {} THEN 0
    ELSE LET x == CHOOSE y \in S : TRUE
         IN  CopiesIn(x, B) + CopiesOver(S \ {x}, B)

\* the Observation row a Record calls for, given the table of entities
RowOfRecord(table, p) ==
    [playerid |-> CHOOSE i \in DOMAIN table : table[i] = p.name,
     rating |-> NumVal(p.rating),
     status |-> p.status]

ExpectedObs(table, fics) ==
    LET recs == BagToSet(fics)
        rows == {RowOfRecord(table, p) : p \in recs}
    IN  [r \in rows |-> CopiesOver({p \in recs : RowOfRecord(table, p) = r}, fics)]

PollErrorRaised(e, at) ==
    \/ e \in {"EOFError", "KeyError"}
    \/ e = "OSError" /\ at \in PollPcs

(* -------------------------------- claims ------------------------------- *)

\* C1: when two consecutive committed cycles got the identical reply, the
\* second one inserts no Entity row and appends exactly one Observation row
\* per observed entity.
C1_Idempotence ==
    [][(CommitStep /\ prevReply.ok /\ prevReply.strings = playerStrings) =>
          /\ AddedPlayers = <<>>
          /\ \A i \in DOMAIN players' :
                players'[i] \in PlayerNames(playersFics) =>
                    RowsOfEntity(AddedObs, i) = 1]_vars

\* C2: a committed cycle inserts exactly one Entity row per name of
\* names(O) \ K and no other, and one Observation row per Record of O, linked
\* to the Entity of that name and carrying the Record's rating and status.
C2_SetAlgebra ==
    [][CommitStep =>
          /\ Range(AddedPlayers) = PlayerNames(playersFics) \ playersDB
          /\ Len(AddedPlayers) = Cardinality(PlayerNames(playersFics) \ playersDB)
          /\ \A p \in BagToSet(playersFics) :
                Cardinality({i \in DOMAIN players' : players'[i] = p.name}) = 1
          /\ AddedObs = ExpectedObs(players', playersFics)]_vars

\* a cycle committed that observed a known name and a fresh one
C2_Witness ==
    /\ pc = "sleep"
    /\ newPlayers # {}
    /\ playersDB \cap PlayerNames(playersFics) # {}
    /\ newPlayers \subseteq Range(players)
    /\ BagCardinality(observations) >= 2

\* C3: a store failure at any point of the transaction leaves the committed
\* tables as they were and keeps none of the cycle's rows.
C3_CycleIsolation ==
    [][(exc = "none" /\ exc' \in {"OperationalError", "IntegrityError"}) =>
          /\ players' = players
          /\ observations' = observations
          /\ txPlayers' = <<>>
          /\ txObs' = EmptyBag]_vars

\* the commit failed after the Entity and Observation rows were written, and
\* the fresh names are not in the table
C3_Witness ==
    /\ pc = "crashed"
    /\ exc = "OperationalError"
    /\ excAt = "commit"
    /\ newPlayers # {}
    /\ newPlayers \cap Range(players) = {}
    /\ observations = EmptyBag

\* C4: once poll() has failed, the tables are not written and nothing is
\* left pending.
C4_PollFailureWritesNothing ==
    [][PollErrorRaised(exc', excAt') =>
          /\ players' = players
          /\ observations' = observations
          /\ txPlayers' = <<>>
          /\ txObs' = EmptyBag]_vars

\* the poll of a second cycle failed on a cut stream
C4_Witness ==
    /\ pc = "crashed"
    /\ exc = "EOFError"
    /\ excAt = "read2"
    /\ cycles = 1
    /\ observations # EmptyBag

\* C5: after poll() failed without a cancellation the loop has not
\* terminated (it sleeps and polls again).
C5_RetryAfterPollFailure ==
    (PollErrorRaised(exc, excAt) /\ interrupt = "none") => pc \in LoopPcs

\* C6: the loop stops only after a cancellation signal.
C6_TerminationOnlyByCancellation ==
    pc \in {"closed", "crashed"} => interrupt # "none"

\* C7: an Entity name another writer committed between the SELECT and the
\* INSERT does not abort the cycle.
C7_DuplicateEntityTolerated ==
    ~(pc = "crashed" /\ exc = "IntegrityError" /\ excAt = "insPlayers")

\* C8: a token with an unlisted status character is discarded alone: who()
\* returns the Records of the other tokens of the reply.
C8_UnlistedStatusDiscarded ==
    [][(/\ pc = "parse"
        /\ pc' # "parse"
        /\ interrupt' = "none"
        /\ \E i \in DOMAIN playerStrings : Unlisted(playerStrings[i])) =>
          /\ pc' = "select"
          /\ playersFics' = RecordsOf(playerStrings)]_vars

\* C9: the parser yields a Record exactly for a token made of a maximal
\* non-empty digit prefix, a listed status character and a non-empty rest,
\* with the rating, the table's status and the name; any other token yields
\* no Record and no error.
C9_ParserCorrect ==
    (pc # "parse" /\ Len(playerStrings) = 1) =>
        /\ pc = "select"
        /\ playersFics = RecordsOf(playerStrings)

\* C10: a cancellation during the sleep gives exactly one exit command, and
\* it is the last command of the session.
C10_CancelDuringSleep ==
    interrupt = "sleep" =>
        /\ pc \in {"closed", "crashed"}
        /\ Cardinality({i \in DOMAIN sent : sent[i] = "exit"}) = 1
        /\ sent[Len(sent)] = "exit"

\* interrupted in the sleep after a committed cycle
C10_Witness ==
    /\ interrupt = "sleep"
    /\ pc = "closed"
    /\ cycles >= 1
    /\ Len(sent) >= 2

\* a sequence without a repeated element
NoDuplicates(table) ==
    \A i, j \in DOMAIN table : table[i] = table[j] => i = j

IsPrefix(a, b) == Len(a) <= Len(b) /\ SubSeq(b, 1, Len(a)) = a

LastOf(q) == q[Len(q)]

\* C11: after a cancellation signal, wherever it arrived, disconnect() has
\* been issued.
C11_DisconnectOnEveryCancellation ==
    interrupt # "none" => "exit" \in Range(sent)

\* C12: a cancellation signal that arrives inside the store transaction
\* leaves the transaction running with its rows, and after a cancellation no
\* new query is written.
C12_CancellationOnlyAtBoundary ==
    [][/\ (pc \in TxPcs /\ interrupt = "none" /\ interrupt' # "none") =>
             (pc' \in TxPcs /\ txPlayers' = txPlayers /\ txObs' = txObs)
       /\ (interrupt # "none" /\ sent' # sent) => LastOf(sent') # "who"]_vars

\* C13: disconnect() never raises, also on a connection the server closed.
C13_DisconnectNeverRaises ==
    ~(exc = "OSError" /\ excAt = "close")

\* C14: no two Entity rows share a name, rows once committed stay as they
\* are, and at every commit each observed name has exactly one Entity row,
\* created by that commit when the table did not have it.
C14_EntityIdentity ==
    [][/\ NoDuplicates(players)
       /\ NoDuplicates(players')
       /\ IsPrefix(players, players')
       /\ CommitStep =>
             \A n \in PlayerNames(playersFics) :
                /\ Cardinality({i \in DOMAIN players' : players'[i] = n}) = 1
                /\ n \notin Range(players) => n \in Range(AddedPlayers)]_vars

\* entity b was created after a, observed in two committed cycles, and has
\* one row
C14_Witness ==
    /\ cycles = 2
    /\ players = <<NameA, NameB>>
    /\ NameB \in PlayerNames(playersFics)
    /\ RowsOfEntity(observations, 2) >= 2

\* C15: the result of who() holds at most one Record per name.
C15_RecordsKeyedByName ==
    BagCardinality(playersFics) = Cardinality(PlayerNames(playersFics))

\* C16: who() returns a set only after it observed the completion marker and
\* then the ready prompt; on a stream cut before either it fails.
C16_PollFailsOnTruncation ==
    [][(pc = "parse" /\ pc' = "select") => seen = <<Displayed, Prompt>>]_vars

\* C17: committed Entity rows and Observation rows are never changed or
\* removed: the tables only grow.
C17_AppendOnly ==
    [][/\ IsPrefix(players, players')
       /\ observations \sqsubseteq observations']_vars

\* a cycle failed in its transaction after an earlier cycle committed rows
C17_Witness ==
    /\ pc = "crashed"
    /\ exc = "OperationalError"
    /\ excAt \in {"insObs", "commit"}
    /\ cycles = 1
    /\ BagCardinality(observations) >= 2
    /\ playersFics # EmptyBag

\* C18: connect() writes the username only after it read the login prompt,
\* the password only when one was supplied and after it read the password
\* prompt, neither writes a password nor waits for its prompt without one,
\* and returns only after it read the ready prompt.
C18_LoginHandshakeOrder ==
    [][/\ sent' = Append(sent, "user") => LoginPrompt \in Range(seen')
       /\ sent' = Append(sent, "password") =>
             (password /\ PasswordPrompt \in Range(seen'))
       /\ ~password => (pc' # "password" /\ "password" \notin Range(sent'))
       /\ (pc = "ready" /\ pc' = "setup") =>
             (seen' # <<>> /\ LastOf(seen') = Prompt)]_vars

\* C19: the who command is written only at the ready prompt (the last call,
\* connect or who, ended by reading it), and nothing is written after exit.
C19_QueryProtocolOrder ==
    [][/\ sent' = Append(sent, "who") =>
             (pc = "who" /\ seen # <<>> /\ LastOf(seen) = Prompt)
       /\ "exit" \in Range(sent) => sent' = sent]_vars

\* C20: every Observation row names the id of an existing Entity row, and
\* the rows a commit adds are those of the observed Records: for each row
\* the Entity of its id has the name of a Record with that rating and status.
C20_ReferentialIntegrity ==
    [][/\ \A r \in BagToSet(observations') : r.playerid \in DOMAIN players'
       /\ CommitStep =>
             /\ \A r \in BagToSet(AddedObs) :
                   \E p \in BagToSet(playersFics) :
                      /\ players'[r.playerid] = p.name
                      /\ r.rating = NumVal(p.rating)
                      /\ r.status = p.status
             /\ PlayerNames(playersFics) \subseteq Range(players')]_vars

\* a commit added an Observation row for an Entity it created
C20_Witness ==
    /\ pc = "sleep"
    /\ newPlayers # {}
    /\ LastOf(players) \in newPlayers
    /\ RowsOfEntity(observations, Len(players)) >= 1

====
